---- MODULE Spec2Model ----
(***************************************************************************)
(* WellRead bot: RSS items are fetched, filtered to a trailing time        *)
(* window, scored against topics, summarized and posted to Slack.          *)
(*                                                                         *)
(* JavaScript strings are sequences of one-character strings; the value    *)
(* undefined is the one-element sequence Undefined, which is no string.    *)
(***************************************************************************)
EXTENDS Integers, Sequences, FiniteSets, TLC

\* ------------------------------------------------------------------ values

Undefined == <<"undefined">>

\* JavaScript truthiness of a string-or-undefined value
Falsy(v) == v = Undefined \/ v = <<>>

\* a || b
OrElse(a, b) == IF Falsy(a) THEN b ELSE a

WhiteSpace == {" ", "\t"}

LowerOf ==
    [A |-> "a", B |-> "b", C |-> "c", D |-> "d", E |-> "e", F |-> "f",
     G |-> "g", H |-> "h", I |-> "i", J |-> "j", K |-> "k", L |-> "l",
     M |-> "m", N |-> "n", O |-> "o", P |-> "p", Q |-> "q", R |-> "r",
     S |-> "s", T |-> "t", U |-> "u", V |-> "v", W |-> "w", X |-> "x",
     Y |-> "y", Z |-> "z"]

\* String.prototype.toLowerCase
ToLowerCase(s) ==
    [i \in 1..Len(s) |-> IF s[i] \in DOMAIN LowerOf THEN LowerOf[s[i]] ELSE s[i]]

\* endsWith in place of includes
IncludesAtEndOnly(s, t) ==
    Len(s) >= Len(t) /\ SubSeq(s, Len(s) - Len(t) + 1, Len(s)) = t

\* String.prototype.includes
Includes(s, t) ==
    \E i \in 0..(Len(s) - Len(t)) : SubSeq(s, i + 1, i + Len(t)) = t

\* String.prototype.startsWith
StartsWith(s, t) == Len(s) >= Len(t) /\ SubSeq(s, 1, Len(t)) = t

RECURSIVE SkipSpace(_, _)
SkipSpace(s, i) ==
    IF i <= Len(s) /\ s[i] \in WhiteSpace THEN SkipSpace(s, i + 1) ELSE i

RECURSIVE SplitFrom(_, _, _, _)
SplitFrom(s, i, cur, acc) ==
    IF i > Len(s) THEN Append(acc, cur)
    ELSE IF s[i] \in WhiteSpace
         THEN SplitFrom(s, SkipSpace(s, i), <<>>, Append(acc, cur))
         ELSE SplitFrom(s, i + 1, Append(cur, s[i]), acc)

\* String.prototype.split(/\s+/)
SplitWhitespace(s) == SplitFrom(s, 1, <<>>, <<>>)

RECURSIVE TrimEnd(_)
TrimEnd(s) ==
    IF s # <<>> /\ s[Len(s)] \in WhiteSpace THEN TrimEnd(SubSeq(s, 1, Len(s) - 1)) ELSE s

\* String.prototype.trim
Trim(s) == TrimEnd(SubSeq(s, SkipSpace(s, 1), Len(s)))

\* ------------------------------------------------------------------ dates

MsPerHour == 60 * 60 * 1000

\* Date.now() of the run, in milliseconds
NowMs == 100 * MsPerHour

\* the text a feed carries for the instant ms
DateText(ms) == <<"@", ToString(ms)>>

\* the instants the feeds of the model can carry
KnownInstants ==
    {NowMs - 48 * MsPerHour,
     NowMs - 24 * MsPerHour - 1000, NowMs - 24 * MsPerHour, NowMs - 24 * MsPerHour + 1000,
     NowMs - 2 * MsPerHour,
     NowMs - MsPerHour - 1000, NowMs - MsPerHour, NowMs - MsPerHour + 1,
     NowMs + MsPerHour}

\* new Date(ms)
DateOf(ms) == [isNaN |-> FALSE, time |-> ms]

\* the Invalid Date, whose time value is NaN
InvalidDate == [isNaN |-> TRUE, time |-> 0]

\* the date texts the feeds of the model can carry, each with its instant
KnownDates == {<<DateText(ms), ms>> : ms \in KnownInstants}

\* new Date(text): the instant the text names, or Invalid Date
DateParse(text) ==
    IF \E d \in KnownDates : d[1] = text
    THEN DateOf((CHOOSE d \in KnownDates : d[1] = text)[2])
    ELSE InvalidDate

\* a > b on Date values: false as soon as either time value is NaN
DateGreater(a, b) == ~a.isNaN /\ ~b.isNaN /\ a.time > b.time

\* ------------------------------------------------------------------ RSSFeedParser

\* the item => ({...}) mapping of fetchFeed
NormalizeItem(raw, feedTitle) ==
    [id          |-> raw.id,
     title       |-> raw.title,
     link        |-> raw.link,
     pubDate     |-> raw.pubDate,
     creator     |-> OrElse(raw.creator, raw.author),
     description |-> OrElse(raw.contentSnippet, raw.description),
     content     |-> OrElse(raw.contentEncoded, raw.content),
     feedSource  |-> feedTitle]

\* the filter with the comparison the wrong way round
KeepRecentInverted(item, cutoffTime) ==
    IF Falsy(item.pubDate) THEN FALSE
    ELSE DateGreater(cutoffTime, DateParse(item.pubDate))

\* the filter with >= in place of >
KeepRecentInclusive(item, cutoffTime) ==
    IF Falsy(item.pubDate) THEN FALSE
    ELSE LET pubDate == DateParse(item.pubDate)
         IN  ~pubDate.isNaN /\ ~cutoffTime.isNaN /\ pubDate.time >= cutoffTime.time

KeepRecent(item, cutoffTime) ==
    IF Falsy(item.pubDate) THEN FALSE
    ELSE DateGreater(DateParse(item.pubDate), cutoffTime)

filterByTimeframe(items, hoursAgo, now) ==
    LET cutoffTime == DateOf(now - hoursAgo * MsPerHour)
    IN  SelectSeq(items, LAMBDA item : KeepRecent(item, cutoffTime))

\* ------------------------------------------------------------------ ContentCurator

PhraseScore == 10

WordScore == 2

MinWordLength == 3

searchTextOf(item) ==
    ToLowerCase(OrElse(item.title, <<>>) \o <<" ">> \o OrElse(item.description, <<>>)
                \o <<" ">> \o OrElse(item.content, <<>>))

RECURSIVE WordLoop(_, _, _)
WordLoop(searchText, topicWords, score) ==
    IF topicWords = <<>> THEN score
    ELSE LET word == Head(topicWords)
         IN  WordLoop(searchText, Tail(topicWords),
                      IF Len(word) > MinWordLength /\ Includes(searchText, word)
                      THEN score + WordScore ELSE score)

\* the loop with the word matches in an else branch of the phrase match
RECURSIVE TopicLoopExclusive(_, _, _)
TopicLoopExclusive(searchText, topicList, score) ==
    IF topicList = <<>> THEN score
    ELSE LET topic == Head(topicList)
         IN  TopicLoopExclusive(searchText, Tail(topicList),
                 IF Includes(searchText, topic) THEN score + PhraseScore
                 ELSE WordLoop(searchText, SplitWhitespace(topic), score))

RECURSIVE TopicLoop(_, _, _)
TopicLoop(searchText, topicList, score) ==
    IF topicList = <<>> THEN score
    ELSE LET topic == Head(topicList)
             afterPhrase == IF Includes(searchText, topic) THEN score + PhraseScore ELSE score
         IN  TopicLoop(searchText, Tail(topicList),
                       WordLoop(searchText, SplitWhitespace(topic), afterPhrase))

calculateRelevanceScore(item, topicList) == TopicLoop(searchTextOf(item), topicList, 0)

\* {...item, relevanceScore: ...}
WithScore(item, topicList) ==
    [f \in DOMAIN item \cup {"relevanceScore"} |->
        IF f = "relevanceScore" THEN calculateRelevanceScore(item, topicList) ELSE item[f]]

\* (a, b) => b.relevanceScore - a.relevanceScore
CompareScore(a, b) == b.relevanceScore - a.relevanceScore

\* the insertion of a sort that puts a later equal element first
RECURSIVE InsertSortedUnstable(_, _)
InsertSortedUnstable(sorted, x) ==
    IF sorted = <<>> THEN <<x>>
    ELSE IF CompareScore(x, Head(sorted)) <= 0
         THEN <<x>> \o sorted
         ELSE <<Head(sorted)>> \o InsertSortedUnstable(Tail(sorted), x)

\* where a stable sort puts x among the already sorted earlier elements
RECURSIVE InsertSorted(_, _)
InsertSorted(sorted, x) ==
    IF sorted = <<>> THEN <<x>>
    ELSE IF CompareScore(x, Head(sorted)) < 0
         THEN <<x>> \o sorted
         ELSE <<Head(sorted)>> \o InsertSorted(Tail(sorted), x)

\* Array.prototype.sort with CompareScore (stable since ES2019)
RECURSIVE SortByScore(_)
SortByScore(s) ==
    IF s = <<>> THEN <<>>
    ELSE InsertSorted(SortByScore(SubSeq(s, 1, Len(s) - 1)), s[Len(s)])

DefaultMinScore == 1

curateItems(items, topicList, minScore) ==
    LET scoredItems == [i \in 1..Len(items) |-> WithScore(items[i], topicList)]
    IN  SortByScore(SelectSeq(scoredItems, LAMBDA item : item.relevanceScore >= minScore))

\* ------------------------------------------------------------------ file loading

\* content.split('\n').map(line => line.trim()).filter(line => line && !line.startsWith('#'))
loadFeeds(lines) ==
    SelectSeq([i \in 1..Len(lines) |-> Trim(lines[i])],
              LAMBDA line : line # <<>> /\ ~StartsWith(line, <<"#">>))

\* the same with .toLowerCase() after .trim()
loadTopics(lines) ==
    SelectSeq([i \in 1..Len(lines) |-> ToLowerCase(Trim(lines[i]))],
              LAMBDA line : line # <<>> /\ ~StartsWith(line, <<"#">>))

DefaultTimeframeHours == 24

\* parseInt(process.env.TIMEFRAME_HOURS || config.timeframe_hours || 24), the
\* environment variable unset; a missing config.json gives { timeframe_hours: 24 }
TimeframeHours(file) ==
    LET config == IF file.exists THEN file.json ELSE [timeframe_hours |-> DefaultTimeframeHours]
    IN  IF config.timeframe_hours = 0 THEN DefaultTimeframeHours ELSE config.timeframe_hours

\* the successful results flattened from the last feed to the first
RECURSIVE FlatMapLastFirst(_, _)
FlatMapLastFirst(results, n) ==
    IF n = 0 THEN <<>>
    ELSE (IF results[n].success THEN results[n].items ELSE <<>>)
         \o FlatMapLastFirst(results, n - 1)

\* results.filter(result => result.success).flatMap(result => result.items)
RECURSIVE FlatMapSuccessful(_, _)
FlatMapSuccessful(results, n) ==
    IF n = 0 THEN <<>>
    ELSE FlatMapSuccessful(results, n - 1)
         \o (IF results[n].success THEN results[n].items ELSE <<>>)

\* ------------------------------------------------------------------ ClaudeSummarizer

MaxConcurrent == 3

\* message.content[0].text of a successful call for the item
SummaryText(item) == <<"S">> \o item.link

\* `Summary unavailable: ${error.message}`
SummaryFallback == <<"Summary unavailable">>

\* {...item, summary: ...}
WithSummary(item, summary) ==
    [f \in DOMAIN item \cup {"summary"} |-> IF f = "summary" THEN summary ELSE item[f]]

\* a slice one item longer: items.slice(i, i + maxConcurrent + 1)
BatchPositionsOneMore(items, i, maxConcurrent) ==
    {k \in 1..Len(items) : i < k /\ k <= i + maxConcurrent + 1}

\* items.slice(i, i + maxConcurrent), as the positions it covers
BatchPositions(items, i, maxConcurrent) ==
    {k \in 1..Len(items) : i < k /\ k <= i + maxConcurrent}

\* ------------------------------------------------------------------ state

VARIABLES
    call,               \* the function under test and its arguments
    ret,                \* its return value, once it has returned
    env,                \* process.env: which variables are set
    configFile,         \* config.json
    feedsFile,          \* feeds.txt, as its lines
    topicsFile,         \* topics.txt, as its lines
    run,                \* the number of this run of main
    postedBefore,       \* the links the channel holds paper messages of, from earlier runs
    pc,                 \* where main is
    exitCode,           \* the exit code of the process, once it has ended
    hours,              \* TIMEFRAME_HOURS
    feedUrls,
    topics,
    pending,            \* fetchAllFeeds: the feeds whose fetchFeed has not settled
    fetchResults,       \* fetchAllFeeds: results, by position of the feed
    fetchCalls,         \* the URLs handed to parser.parseURL in this run
    allItems,
    recentItems,
    curatedItems,
    batchStart,         \* summarizeBatch: i
    inFlight,           \* summarizeBatch: the positions whose summarizePaper has not settled
    summaries,          \* summarizeBatch: the settled summaries of the batch
    itemsWithSummaries, \* summarizeBatch: results
    llmCalls,           \* the calls of client.messages.create in this run
    digest,
    digestTs,
    paperIndex,         \* postAllPapers: i
    paperTs,            \* postPaperWithSummary: paperResult.ts
    slack               \* the calls of client.chat.postMessage in this run

fnVars == <<call, ret>>

worldVars == <<env, configFile, feedsFile, topicsFile>>

runVars ==
    <<pc, exitCode, hours, feedUrls, topics, pending, fetchResults, fetchCalls, allItems,
      recentItems, curatedItems, batchStart, inFlight, summaries, itemsWithSummaries,
      llmCalls, digest, digestTs, paperIndex, paperTs, slack>>

vars == <<fnVars, worldVars, run, postedBefore, runVars>>

NoFile == [exists |-> FALSE, lines |-> <<>>]

\* the state of a main that has not started
RunReset ==
    /\ pc = "start"
    /\ exitCode = -1
    /\ hours = 0
    /\ feedUrls = <<>>
    /\ topics = <<>>
    /\ pending = {}
    /\ fetchResults = <<>>
    /\ fetchCalls = <<>>
    /\ allItems = <<>>
    /\ recentItems = <<>>
    /\ curatedItems = <<>>
    /\ batchStart = 0
    /\ inFlight = {}
    /\ summaries = <<>>
    /\ itemsWithSummaries = <<>>
    /\ llmCalls = <<>>
    /\ digest = <<>>
    /\ digestTs = 0
    /\ paperIndex = 0
    /\ paperTs = 0
    /\ slack = <<>>

\* no main runs: the state of the specifications of the single functions
MainIdle ==
    /\ env = [ANTHROPIC_API_KEY |-> FALSE, SLACK_BOT_TOKEN |-> FALSE, SLACK_CHANNEL |-> FALSE]
    /\ configFile = [exists |-> FALSE, json |-> [timeframe_hours |-> 0, max_items_to_post |-> 0]]
    /\ feedsFile = NoFile
    /\ topicsFile = NoFile
    /\ run = 0
    /\ postedBefore = {}
    /\ RunReset

mainVars == <<worldVars, run, postedBefore, runVars>>

NotReturned == [done |-> FALSE, value |-> <<>>]

Returned(v) == [done |-> TRUE, value |-> v]

\* ------------------------------------------------------------------ inputs

DEEP == <<"d", "e", "e", "p">>
NETS == <<"n", "e", "t", "s">>
AI == <<"a", "i">>
SP == <<" ">>

\* an item as fetchFeed builds it
MakeItem(id, title, description, content, link, pubDate) ==
    [id |-> id, title |-> title, link |-> link, pubDate |-> pubDate,
     creator |-> Undefined, description |-> description, content |-> content,
     feedSource |-> <<"F">>]

\* ---- filterByTimeframe

MaxFilterItems == 3

HoursPool == {1, 24}

PubDatePool ==
    {Undefined, <<>>, <<"s", "o", "o", "n">>}
    \cup {DateText(ms) : ms \in KnownInstants \ {NowMs - 48 * MsPerHour, NowMs - 2 * MsPerHour}}

FilterInputs(maxItems) ==
    UNION {{[i \in 1..n |-> MakeItem(i, DEEP, Undefined, Undefined, <<"u", ToString(i)>>, d[i])] :
                d \in [1..n -> PubDatePool]} : n \in 0..maxItems}

InitFilter ==
    /\ MainIdle
    /\ ret = NotReturned
    /\ \E items \in FilterInputs(MaxFilterItems), h \in HoursPool :
          call = [fn |-> "filterByTimeframe", items |-> items, hoursAgo |-> h, now |-> NowMs]

ReturnFilter ==
    /\ call.fn = "filterByTimeframe"
    /\ ~ret.done
    /\ ret' = Returned(filterByTimeframe(call.items, call.hoursAgo, call.now))
    /\ UNCHANGED <<call, mainVars>>

NextFilter == ReturnFilter

SpecFilter == InitFilter /\ [][NextFilter]_vars

\* C1: the pubDate texts that name an instant strictly after the cutoff
IsRecentText(text, hoursAgo, now) ==
    \E d \in KnownDates : d[1] = text /\ d[2] > now - hoursAgo * MsPerHour

\* C1: filterByTimeframe returns exactly the items of the input whose pubDate is
\* present, parseable and strictly after now - hoursAgo hours, unmodified and
\* in input order; all other items (at the cutoff, older, no pubDate, no date)
\* are left out.
C1_FilterContract ==
    ret.done /\ call.fn = "filterByTimeframe" =>
        LET in == call.items
            out == ret.value
        IN  /\ \A k \in 1..Len(out) : out[k].id \in 1..Len(in) /\ out[k] = in[out[k].id]
            /\ \A k \in 1..(Len(out) - 1) : out[k].id < out[k + 1].id
            /\ \A i \in 1..Len(in) :
                  (\E k \in 1..Len(out) : out[k].id = i)
                      <=> IsRecentText(in[i].pubDate, call.hoursAgo, call.now)

\* C1 witness: one run over an item exactly at the cutoff, an item one second
\* after it and an item whose pubDate is no date; only the second is returned.
C1_Witness ==
    /\ ret.done /\ call.fn = "filterByTimeframe" /\ call.hoursAgo = 24
    /\ Len(call.items) = 3
    /\ call.items[1].pubDate = DateText(NowMs - 24 * MsPerHour)
    /\ call.items[2].pubDate = DateText(NowMs - 24 * MsPerHour + 1000)
    /\ call.items[3].pubDate = <<"s", "o", "o", "n">>
    /\ ret.value = <<call.items[2]>>

\* ---- calculateRelevanceScore

MaxTopics == 2

TopicPool ==
    {DEEP \o SP \o NETS, DEEP, AI, <<"D">> \o Tail(DEEP), DEEP \o SP \o SP \o DEEP, NETS \o SP \o AI}

FieldPool == {Undefined, <<>>, DEEP, NETS, <<"D">> \o Tail(DEEP) \o SP \o <<"N">> \o Tail(NETS), AI}

ContentPool == {Undefined, <<>>, NETS}

AddPool == {SP \o <<"x">>, NETS}

SearchedFields == {"title", "description", "content"}

TopicLists(maxTopics) == UNION {[1..n -> TopicPool] : n \in 0..maxTopics}

InitScore ==
    /\ MainIdle
    /\ ret = NotReturned
    /\ \E t \in FieldPool, d \in FieldPool, c \in ContentPool, topicList \in TopicLists(MaxTopics) :
          call = [fn |-> "calculateRelevanceScore",
                  item |-> MakeItem(1, t, d, c, <<"u">>, Undefined),
                  topics |-> topicList,
                  extended |-> "none", side |-> "none", before |-> 0]

ReturnScore ==
    /\ call.fn = "calculateRelevanceScore"
    /\ ~ret.done
    /\ ret' = Returned(calculateRelevanceScore(call.item, call.topics))
    /\ UNCHANGED <<call, mainVars>>

\* the caller adds text to one searched field of the item and scores it again
ExtendField ==
    /\ call.fn = "calculateRelevanceScore"
    /\ ret.done
    /\ call.extended = "none"
    /\ \E f \in SearchedFields, side \in {"start", "end"}, more \in AddPool :
          LET old == OrElse(call.item[f], <<>>)
              new == IF side = "end" THEN old \o more ELSE more \o old
          IN  call' = [call EXCEPT !.item[f] = new, !.extended = f, !.side = side,
                                   !.before = ret.value]
    /\ ret' = NotReturned
    /\ UNCHANGED mainVars

NextScore == ReturnScore \/ ExtendField

SpecScore == InitScore /\ [][NextScore]_vars

\* C2: the text the claim searches: the three fields, each lowercased, a
\* missing field empty, joined by single spaces
ClaimText(item) ==
    LET F(v) == IF v = Undefined THEN <<>> ELSE ToLowerCase(v)
    IN  F(item.title) \o <<" ">> \o F(item.description) \o <<" ">> \o F(item.content)

IsSubstring(text, s) ==
    \E a \in 1..(Len(text) + 1) : \E b \in (a - 1)..Len(text) : SubSeq(text, a, b) = s

\* C2: the whitespace-separated words of a topic, as <<first, last>> positions
WordSpans(topic) ==
    {sp \in (1..Len(topic)) \X (1..Len(topic)) :
        /\ sp[1] <= sp[2]
        /\ \A i \in sp[1]..sp[2] : topic[i] \notin WhiteSpace
        /\ (sp[1] = 1 \/ topic[sp[1] - 1] \in WhiteSpace)
        /\ (sp[2] = Len(topic) \/ topic[sp[2] + 1] \in WhiteSpace)}

TopicContribution(text, topic) ==
    (IF IsSubstring(text, topic) THEN 10 ELSE 0)
    + 2 * Cardinality({sp \in WordSpans(topic) :
                          /\ sp[2] - sp[1] + 1 > 3
                          /\ IsSubstring(text, SubSeq(topic, sp[1], sp[2]))})

RECURSIVE SumContributions(_, _, _)
SumContributions(text, topicList, n) ==
    IF n = 0 THEN 0
    ELSE SumContributions(text, topicList, n - 1) + TopicContribution(text, topicList[n])

\* C2: the score is the sum over the topics of 10 for the phrase being a
\* substring of the lowercased text plus 2 for every word of the topic longer
\* than 3 characters that is a substring of it, phrase matched or not.
C2_ScoreIsSum ==
    ret.done /\ call.fn = "calculateRelevanceScore" =>
        ret.value = SumContributions(ClaimText(call.item), call.topics, Len(call.topics))

\* C2 witness: title "Deep Nets", description "ai", topics "deep nets" and
\* "ai": 10 + 2 + 2 for the first topic, 10 and no word for the second.
C2_Witness ==
    /\ ret.done /\ call.fn = "calculateRelevanceScore" /\ call.extended = "none"
    /\ call.item.title = <<"D">> \o Tail(DEEP) \o SP \o <<"N">> \o Tail(NETS)
    /\ call.item.description = AI
    /\ call.topics = <<DEEP \o SP \o NETS, AI>>
    /\ ret.value = 24

\* C4 as claimed: text added to any searched field never lowers the score.
C4_AnyFieldMonotone ==
    ret.done /\ call.fn = "calculateRelevanceScore" /\ call.extended # "none" =>
        ret.value >= call.before

\* C4 amended: text added at the end of the search text (appended to content)
\* or at its start (prepended to title) never lowers the score.
C4_SearchTextMonotone ==
    /\ ret.done /\ call.fn = "calculateRelevanceScore"
    /\ \/ call.extended = "content" /\ call.side = "end"
       \/ call.extended = "title" /\ call.side = "start"
    => ret.value >= call.before

\* C4 witness: an item that scored above 0 is scored again after text was
\* appended to its content, and the score went up.
C4_Witness ==
    /\ ret.done /\ call.fn = "calculateRelevanceScore"
    /\ call.extended = "content" /\ call.side = "end"
    /\ call.before > 0
    /\ ret.value > call.before

\* ---- curateItems

MaxCurateItems == 4

CurateTitlePool == {DEEP \o SP \o NETS, DEEP, NETS, AI}

CurateTopics == <<DEEP \o SP \o NETS>>

MinScorePool == {0, 3}

CurateInputs(maxItems) ==
    UNION {{[i \in 1..n |-> MakeItem(i, t[i], Undefined, Undefined, <<"u", ToString(i)>>, Undefined)] :
                t \in [1..n -> CurateTitlePool]} : n \in 0..maxItems}

InitCurate ==
    /\ MainIdle
    /\ ret = NotReturned
    /\ \E items \in CurateInputs(MaxCurateItems) :
          \/ call = [fn |-> "curateItems", items |-> items, topics |-> CurateTopics,
                     minScoreGiven |-> FALSE, minScore |-> DefaultMinScore]
          \/ \E m \in MinScorePool :
                call = [fn |-> "curateItems", items |-> items, topics |-> CurateTopics,
                        minScoreGiven |-> TRUE, minScore |-> m]

ReturnCurate ==
    /\ call.fn = "curateItems"
    /\ ~ret.done
    /\ ret' = Returned(curateItems(call.items, call.topics,
                                   IF call.minScoreGiven THEN call.minScore ELSE DefaultMinScore))
    /\ UNCHANGED <<call, mainVars>>

NextCurate == ReturnCurate

SpecCurate == InitCurate /\ [][NextCurate]_vars

\* C3: curateItems returns exactly the items scoring at least minScore (1 when
\* none is given), each with its score attached and otherwise unchanged, in
\* descending score order, equal scores in input order.
C3_CurateContract ==
    ret.done /\ call.fn = "curateItems" =>
        LET in == call.items
            out == ret.value
            min == IF call.minScoreGiven THEN call.minScore ELSE 1
            Score(i) == calculateRelevanceScore(in[i], call.topics)
        IN  /\ \A k \in 1..Len(out) :
                  /\ out[k].id \in 1..Len(in)
                  /\ DOMAIN out[k] = DOMAIN in[out[k].id] \cup {"relevanceScore"}
                  /\ \A f \in DOMAIN in[out[k].id] : out[k][f] = in[out[k].id][f]
                  /\ out[k].relevanceScore = Score(out[k].id)
            /\ {out[k].id : k \in 1..Len(out)} = {i \in 1..Len(in) : Score(i) >= min}
            /\ \A k \in 1..Len(out), l \in 1..Len(out) :
                  k < l =>
                     \/ out[k].relevanceScore > out[l].relevanceScore
                     \/ /\ out[k].relevanceScore = out[l].relevanceScore
                        /\ out[k].id < out[l].id

\* C3 witness: with the default minScore, of a low, a zero, a high and a second
\* low scorer the zero is dropped, the high one comes first and the two equal
\* scorers keep their input order.
C3_Witness ==
    /\ ret.done /\ call.fn = "curateItems" /\ ~call.minScoreGiven
    /\ Len(call.items) = 4
    /\ call.items[1].title = DEEP /\ call.items[2].title = AI
    /\ call.items[3].title = DEEP \o SP \o NETS /\ call.items[4].title = NETS
    /\ [k \in 1..Len(ret.value) |-> ret.value[k].id] = <<3, 1, 4>>

\* ------------------------------------------------------------------ main

MaxRuns == 2

MaxFeedItems == 2

DefaultMaxItemsToPost == 20

\* max_items_to_post of config.json, MAX_ITEMS_TO_POST unset
MaxItemsToPost(file) ==
    IF file.exists THEN file.json.max_items_to_post ELSE DefaultMaxItemsToPost

EnvPool == [ANTHROPIC_API_KEY : BOOLEAN, SLACK_BOT_TOKEN : BOOLEAN, SLACK_CHANNEL : BOOLEAN]

ConfigPool ==
    {[exists |-> FALSE, json |-> [timeframe_hours |-> 0, max_items_to_post |-> 0]],
     [exists |-> TRUE, json |-> [timeframe_hours |-> 72, max_items_to_post |-> 1]]}

FeedsFilePool ==
    {NoFile,
     [exists |-> TRUE, lines |-> <<<<"#", "A">>, <<>>>>],
     [exists |-> TRUE, lines |-> <<<<" ", "A">>, <<"#", "C">>, <<"B", " ">>>>]}

TopicsFilePool ==
    {NoFile,
     [exists |-> TRUE, lines |-> <<<<" ">>>>],
     [exists |-> TRUE,
      lines |-> <<<<"#", "t">>, <<"D">> \o Tail(DEEP) \o SP \o <<"N">> \o Tail(NETS) \o SP>>]}

\* an item as rss-parser hands it to fetchFeed
RawItem(title, contentSnippet, link, pubDate) ==
    [id |-> <<0, 0>>, title |-> title, link |-> link, pubDate |-> pubDate,
     creator |-> Undefined, author |-> Undefined,
     contentSnippet |-> contentSnippet, description |-> Undefined,
     contentEncoded |-> Undefined, content |-> Undefined]

\* relevant by one word of its snippet and recent; not relevant and recent;
\* relevant by the whole phrase and two days old
ItemKinds ==
    {RawItem(AI, <<"D">> \o Tail(DEEP), <<"u", "1">>, DateText(NowMs - 2 * MsPerHour)),
     RawItem(AI, Undefined, <<"u", "2">>, DateText(NowMs - 2 * MsPerHour)),
     RawItem(DEEP \o SP \o NETS, Undefined, <<"u", "3">>, DateText(NowMs - 48 * MsPerHour))}

\* what the feed at position i of the list can hold
FeedContents(i) ==
    UNION {{[k \in 1..n |-> [c[k] EXCEPT !.id = <<i, k>>]] : c \in [1..n -> ItemKinds]} :
              n \in 0..MaxFeedItems}

Init ==
    /\ call = [fn |-> "main"]
    /\ ret = NotReturned
    /\ env \in EnvPool
    /\ configFile \in ConfigPool
    /\ feedsFile \in FeedsFilePool
    /\ topicsFile \in TopicsFilePool
    /\ run = 1
    /\ postedBefore = {}
    /\ RunReset

\* process.exit(1)
Exit1 == pc' = "exited" /\ exitCode' = 1

\* main returns and the process ends
Return0 == pc' = "done" /\ exitCode' = 0

\* main up to the first read of a file of the run
Start ==
    /\ pc = "start"
    /\ IF ~env.ANTHROPIC_API_KEY \/ ~env.SLACK_BOT_TOKEN \/ ~env.SLACK_CHANNEL
       THEN Exit1 /\ UNCHANGED hours
       ELSE pc' = "loadFeeds" /\ hours' = TimeframeHours(configFile) /\ UNCHANGED exitCode
    /\ UNCHANGED <<fnVars, worldVars, run, postedBefore, feedUrls, topics, pending,
                   fetchResults, fetchCalls, allItems, recentItems, curatedItems, batchStart,
                   inFlight, summaries, itemsWithSummaries, llmCalls, digest, digestTs,
                   paperIndex, paperTs, slack>>

\* await feedParser.loadFeeds('feeds.txt'); a failed read lands in main's catch
LoadFeeds ==
    /\ pc = "loadFeeds"
    /\ IF ~feedsFile.exists
       THEN Exit1 /\ UNCHANGED feedUrls
       ELSE pc' = "loadTopics" /\ feedUrls' = loadFeeds(feedsFile.lines) /\ UNCHANGED exitCode
    /\ UNCHANGED <<fnVars, worldVars, run, postedBefore, hours, topics, pending,
                   fetchResults, fetchCalls, allItems, recentItems, curatedItems, batchStart,
                   inFlight, summaries, itemsWithSummaries, llmCalls, digest, digestTs,
                   paperIndex, paperTs, slack>>

\* main without the check of topics.length
LoadTopicsUnchecked ==
    /\ pc = "loadTopics"
    /\ IF ~topicsFile.exists
       THEN Exit1 /\ UNCHANGED <<topics, pending, fetchResults, fetchCalls>>
       ELSE /\ topics' = loadTopics(topicsFile.lines)
            /\ IF Len(feedUrls) = 0
               THEN Exit1 /\ UNCHANGED <<pending, fetchResults, fetchCalls>>
               ELSE /\ pc' = "fetching"
                    /\ pending' = 1..Len(feedUrls)
                    /\ fetchResults' = [i \in 1..Len(feedUrls) |-> [success |-> FALSE, items |-> <<>>]]
                    /\ fetchCalls' = feedUrls
                    /\ UNCHANGED exitCode
    /\ UNCHANGED <<fnVars, worldVars, run, postedBefore, hours, feedUrls, allItems,
                   recentItems, curatedItems, batchStart, inFlight, summaries,
                   itemsWithSummaries, llmCalls, digest, digestTs, paperIndex, paperTs, slack>>

\* await curator.loadTopics('topics.txt'), the two length checks, and the
\* start of every fetchFeed by fetchAllFeeds
LoadTopics ==
    /\ pc = "loadTopics"
    /\ IF ~topicsFile.exists
       THEN Exit1 /\ UNCHANGED <<topics, pending, fetchResults, fetchCalls>>
       ELSE /\ topics' = loadTopics(topicsFile.lines)
            /\ IF Len(feedUrls) = 0 \/ Len(topics') = 0
               THEN Exit1 /\ UNCHANGED <<pending, fetchResults, fetchCalls>>
               ELSE /\ pc' = "fetching"
                    /\ pending' = 1..Len(feedUrls)
                    /\ fetchResults' = [i \in 1..Len(feedUrls) |-> [success |-> FALSE, items |-> <<>>]]
                    /\ fetchCalls' = feedUrls
                    /\ UNCHANGED exitCode
    /\ UNCHANGED <<fnVars, worldVars, run, postedBefore, hours, feedUrls, allItems,
                   recentItems, curatedItems, batchStart, inFlight, summaries,
                   itemsWithSummaries, llmCalls, digest, digestTs, paperIndex, paperTs, slack>>

\* fetchFeed(url) settles: the parsed feed, or the error caught and reported
fetchFeed(i, parsed, content) ==
    IF parsed
    THEN [success |-> TRUE,
          items |-> [k \in 1..Len(content) |-> NormalizeItem(content[k], <<"F">> \o feedUrls[i])]]
    ELSE [success |-> FALSE, items |-> <<>>]

FetchSettle ==
    /\ pc = "fetching"
    /\ \E i \in pending :
          /\ \/ fetchResults' = [fetchResults EXCEPT ![i] = fetchFeed(i, FALSE, <<>>)]
             \/ \E content \in FeedContents(i) :
                   fetchResults' = [fetchResults EXCEPT ![i] = fetchFeed(i, TRUE, content)]
          /\ pending' = pending \ {i}
    /\ UNCHANGED <<fnVars, worldVars, run, postedBefore, pc, exitCode, hours, feedUrls, topics,
                   fetchCalls, allItems, recentItems, curatedItems, batchStart, inFlight,
                   summaries, itemsWithSummaries, llmCalls, digest, digestTs, paperIndex,
                   paperTs, slack>>

\* main calling summarizeBatch with a batch size of 0
maxConcurrentZero == IF call.fn = "summarizeBatch" THEN call.maxConcurrent ELSE 0

\* the maxConcurrent of summarizeBatch: the argument of a direct call, the
\* default in main, which passes none
maxConcurrent == IF call.fn = "summarizeBatch" THEN call.maxConcurrent ELSE MaxConcurrent

\* the summarizePaper calls of the batch that starts after position i
BatchCalls(items, i) ==
    [j \in 1..Cardinality(BatchPositions(items, i, maxConcurrent)) |->
        [kind |-> "summary", id |-> items[i + j].id, link |-> items[i + j].link]]

\* main without the return on curatedItems.length === 0
AfterFetchNoCuratedCheck ==
    /\ pc = "fetching"
    /\ pending = {}
    /\ LET all == FlatMapSuccessful(fetchResults, Len(fetchResults))
           recent == filterByTimeframe(all, hours, NowMs)
           curated == curateItems(recent, topics, DefaultMinScore)
       IN  /\ allItems' = all
           /\ recentItems' = recent
           /\ IF Len(recent) = 0
              THEN Return0 /\ UNCHANGED <<curatedItems, inFlight, llmCalls>>
              ELSE /\ curatedItems' = curated
                   /\ pc' = "summarizing"
                   /\ inFlight' = BatchPositions(curated, 0, maxConcurrent)
                   /\ llmCalls' = BatchCalls(curated, 0)
                   /\ UNCHANGED exitCode
    /\ UNCHANGED <<fnVars, worldVars, run, postedBefore, hours, feedUrls, topics, pending,
                   fetchResults, fetchCalls, batchStart, summaries, itemsWithSummaries,
                   digest, digestTs, paperIndex, paperTs, slack>>

\* Promise.all of fetchAllFeeds resolves; main filters and curates, and
\* summarizeBatch starts its first batch
AfterFetch ==
    /\ pc = "fetching"
    /\ pending = {}
    /\ LET all == FlatMapSuccessful(fetchResults, Len(fetchResults))
           recent == filterByTimeframe(all, hours, NowMs)
           curated == curateItems(recent, topics, DefaultMinScore)
       IN  /\ allItems' = all
           /\ recentItems' = recent
           /\ IF Len(recent) = 0
              THEN Return0 /\ UNCHANGED <<curatedItems, inFlight, llmCalls>>
              ELSE /\ curatedItems' = curated
                   /\ IF Len(curated) = 0
                      THEN Return0 /\ UNCHANGED <<inFlight, llmCalls>>
                      ELSE /\ pc' = "summarizing"
                           /\ inFlight' = BatchPositions(curated, 0, maxConcurrent)
                           /\ llmCalls' = BatchCalls(curated, 0)
                           /\ UNCHANGED exitCode
    /\ UNCHANGED <<fnVars, worldVars, run, postedBefore, hours, feedUrls, topics, pending,
                   fetchResults, fetchCalls, batchStart, summaries, itemsWithSummaries,
                   digest, digestTs, paperIndex, paperTs, slack>>

\* what summarizePaper returns: the text of the reply, or the fallback of its catch
summarizePaper(item, replied) == IF replied THEN SummaryText(item) ELSE SummaryFallback

\* summarizePaper without its catch: the error of the call ends the run
SummarySettleThrows ==
    /\ pc = "summarizing"
    /\ \E k \in inFlight, replied \in BOOLEAN :
          IF replied
          THEN /\ summaries' = (k :> SummaryText(curatedItems[k])) @@ summaries
               /\ inFlight' = inFlight \ {k}
               /\ UNCHANGED <<pc, exitCode>>
          ELSE Exit1 /\ UNCHANGED <<summaries, inFlight>>
    /\ UNCHANGED <<fnVars, worldVars, run, postedBefore, hours, feedUrls, topics,
                   pending, fetchResults, fetchCalls, allItems, recentItems, curatedItems,
                   batchStart, itemsWithSummaries, llmCalls, digest, digestTs, paperIndex,
                   paperTs, slack>>

SummarySettle ==
    /\ pc = "summarizing"
    /\ \E k \in inFlight, replied \in BOOLEAN :
          /\ summaries' = (k :> summarizePaper(curatedItems[k], replied)) @@ summaries
          /\ inFlight' = inFlight \ {k}
    /\ UNCHANGED <<fnVars, worldVars, run, postedBefore, pc, exitCode, hours, feedUrls, topics,
                   pending, fetchResults, fetchCalls, allItems, recentItems, curatedItems,
                   batchStart, itemsWithSummaries, llmCalls, digest, digestTs, paperIndex,
                   paperTs, slack>>

\* Promise.all of the batch resolves: the batch is pushed to results; then the
\* pause before the next batch, or the return and, in main, the call of
\* generateDigest
BatchDone ==
    /\ pc = "summarizing"
    /\ inFlight = {}
    /\ LET n == Cardinality(BatchPositions(curatedItems, batchStart, maxConcurrent))
       IN  itemsWithSummaries' =
               itemsWithSummaries
               \o [j \in 1..n |-> WithSummary(curatedItems[batchStart + j], summaries[batchStart + j])]
    /\ IF batchStart + maxConcurrent < Len(curatedItems)
       THEN pc' = "pause" /\ UNCHANGED <<llmCalls, ret>>
       ELSE IF call.fn = "summarizeBatch"
            THEN pc' = "returned" /\ ret' = Returned(itemsWithSummaries') /\ UNCHANGED llmCalls
            ELSE /\ pc' = "digest"
                 /\ llmCalls' = Append(llmCalls, [kind |-> "digest", id |-> <<0, 0>>, link |-> <<>>])
                 /\ UNCHANGED ret
    /\ UNCHANGED <<call, worldVars, run, postedBefore, exitCode, hours, feedUrls, topics,
                   pending, fetchResults, fetchCalls, allItems, recentItems, curatedItems,
                   batchStart, inFlight, summaries, digest, digestTs, paperIndex, paperTs,
                   slack>>

\* the pause between batches ends: i += maxConcurrent and the next batch starts
PauseOver ==
    /\ pc = "pause"
    /\ batchStart' = batchStart + maxConcurrent
    /\ inFlight' = BatchPositions(curatedItems, batchStart', maxConcurrent)
    /\ llmCalls' = llmCalls \o BatchCalls(curatedItems, batchStart')
    /\ summaries' = <<>>
    /\ pc' = "summarizing"
    /\ UNCHANGED <<fnVars, worldVars, run, postedBefore, exitCode, hours, feedUrls, topics,
                   pending, fetchResults, fetchCalls, allItems, recentItems, curatedItems,
                   itemsWithSummaries, digest, digestTs, paperIndex, paperTs, slack>>

\* generateDigest returns the reply or its fallback; postCompleteDigest starts
DigestSettle ==
    /\ pc = "digest"
    /\ \E replied \in BOOLEAN :
          digest' = IF replied THEN <<"digest">> ELSE <<"Found", ToString(Len(itemsWithSummaries))>>
    /\ pc' = "postDigest"
    /\ UNCHANGED <<fnVars, worldVars, run, postedBefore, exitCode, hours, feedUrls, topics,
                   pending, fetchResults, fetchCalls, allItems, recentItems, curatedItems,
                   batchStart, inFlight, summaries, itemsWithSummaries, llmCalls, digestTs,
                   paperIndex, paperTs, slack>>

\* a call of client.chat.postMessage, as the channel sees it
SlackCall(kind, item, threadTs, ok) ==
    [kind |-> kind, id |-> item.id, link |-> item.link, thread_ts |-> threadTs, ok |-> ok]

NoItem == [id |-> <<0, 0>>, link |-> <<>>]

\* postDigest with a catch that logs and does not rethrow
PostDigestSwallows ==
    /\ pc = "postDigest"
    /\ \E ok \in BOOLEAN :
          /\ slack' = Append(slack, SlackCall("digest", NoItem, 0, ok))
          /\ digestTs' = IF ok THEN Len(slack') ELSE 0
          /\ pc' = "postPaper"
    /\ UNCHANGED <<fnVars, worldVars, run, postedBefore, exitCode, hours, feedUrls, topics,
                   pending, fetchResults, fetchCalls, allItems, recentItems, curatedItems,
                   batchStart, inFlight, summaries, itemsWithSummaries, llmCalls, digest,
                   paperIndex, paperTs>>

\* postDigest: the message is posted and its ts returned, or the error is
\* rethrown through postCompleteDigest into main's catch
PostDigest ==
    /\ pc = "postDigest"
    /\ \E ok \in BOOLEAN :
          /\ slack' = Append(slack, SlackCall("digest", NoItem, 0, ok))
          /\ IF ok
             THEN /\ digestTs' = Len(slack')
                  /\ pc' = "postPaper"
                  /\ UNCHANGED exitCode
             ELSE Exit1 /\ UNCHANGED digestTs
    /\ UNCHANGED <<fnVars, worldVars, run, postedBefore, hours, feedUrls, topics, pending,
                   fetchResults, fetchCalls, allItems, recentItems, curatedItems, batchStart,
                   inFlight, summaries, itemsWithSummaries, llmCalls, digest, paperIndex,
                   paperTs>>

\* postPaperWithSummary, first message: posted in the digest's thread, or the
\* error logged and rethrown through postAllPapers into main's catch
PostPaper ==
    /\ pc = "postPaper"
    /\ LET paper == itemsWithSummaries[paperIndex + 1]
       IN  \E ok \in BOOLEAN :
              /\ slack' = Append(slack, SlackCall("paper", paper, digestTs, ok))
              /\ IF ok
                 THEN /\ paperTs' = Len(slack')
                      /\ pc' = "postSummary"
                      /\ UNCHANGED exitCode
                 ELSE Exit1 /\ UNCHANGED paperTs
    /\ UNCHANGED <<fnVars, worldVars, run, postedBefore, hours, feedUrls, topics, pending,
                   fetchResults, fetchCalls, allItems, recentItems, curatedItems, batchStart,
                   inFlight, summaries, itemsWithSummaries, llmCalls, digest, digestTs,
                   paperIndex>>

\* postPaperWithSummary with the summary posted in the thread of the digest
PostSummaryInDigestThread ==
    /\ pc = "postSummary"
    /\ LET paper == itemsWithSummaries[paperIndex + 1]
       IN  \E ok \in BOOLEAN :
              /\ slack' = Append(slack, SlackCall("summary", paper, digestTs, ok))
              /\ IF ok
                 THEN /\ paperIndex' = paperIndex + 1
                      /\ IF paperIndex' < Len(itemsWithSummaries)
                         THEN pc' = "postPaper" /\ UNCHANGED exitCode
                         ELSE Return0
                 ELSE Exit1 /\ UNCHANGED paperIndex
    /\ UNCHANGED <<fnVars, worldVars, run, postedBefore, hours, feedUrls, topics, pending,
                   fetchResults, fetchCalls, allItems, recentItems, curatedItems, batchStart,
                   inFlight, summaries, itemsWithSummaries, llmCalls, digest, digestTs,
                   paperTs>>

\* postPaperWithSummary, second message, in the paper's thread; then the next
\* paper of postAllPapers, or the end of main
PostSummary ==
    /\ pc = "postSummary"
    /\ LET paper == itemsWithSummaries[paperIndex + 1]
       IN  \E ok \in BOOLEAN :
              /\ slack' = Append(slack, SlackCall("summary", paper, paperTs, ok))
              /\ IF ok
                 THEN /\ paperIndex' = paperIndex + 1
                      /\ IF paperIndex' < Len(itemsWithSummaries)
                         THEN pc' = "postPaper" /\ UNCHANGED exitCode
                         ELSE Return0
                 ELSE Exit1 /\ UNCHANGED paperIndex
    /\ UNCHANGED <<fnVars, worldVars, run, postedBefore, hours, feedUrls, topics, pending,
                   fetchResults, fetchCalls, allItems, recentItems, curatedItems, batchStart,
                   inFlight, summaries, itemsWithSummaries, llmCalls, digest, digestTs,
                   paperTs>>

\* the links of the paper messages that reached the channel
PostedLinks(calls) ==
    {calls[k].link : k \in {j \in 1..Len(calls) : calls[j].kind = "paper" /\ calls[j].ok}}

\* the next scheduled run of the bot
NewRun ==
    /\ pc \in {"done", "exited"}
    /\ run < MaxRuns
    /\ run' = run + 1
    /\ pc' = "start"
    /\ exitCode' = -1
    /\ hours' = 0
    /\ feedUrls' = <<>>
    /\ topics' = <<>>
    /\ pending' = {}
    /\ fetchResults' = <<>>
    /\ fetchCalls' = <<>>
    /\ allItems' = <<>>
    /\ recentItems' = <<>>
    /\ curatedItems' = <<>>
    /\ batchStart' = 0
    /\ inFlight' = {}
    /\ summaries' = <<>>
    /\ itemsWithSummaries' = <<>>
    /\ llmCalls' = <<>>
    /\ digest' = <<>>
    /\ digestTs' = 0
    /\ paperIndex' = 0
    /\ paperTs' = 0
    /\ slack' = <<>>
    /\ postedBefore' = postedBefore \cup PostedLinks(slack)
    /\ UNCHANGED <<fnVars, worldVars>>

Next ==
    \/ Start
    \/ LoadFeeds
    \/ LoadTopics
    \/ FetchSettle
    \/ AfterFetch
    \/ SummarySettle
    \/ BatchDone
    \/ PauseOver
    \/ DigestSettle
    \/ PostDigest
    \/ PostPaper
    \/ PostSummary

\* one run of the process
Spec == Init /\ [][Next]_vars

\* the steps that are the settling of an awaited file read, request or timer
AwaitedSteps ==
    \/ Start
    \/ LoadFeeds
    \/ LoadTopics
    \/ FetchSettle
    \/ SummarySettle
    \/ BatchDone
    \/ PauseOver
    \/ DigestSettle
    \/ PostDigest
    \/ PostPaper
    \/ PostSummary

\* ENABLED <<AfterFetch>>_vars: every fetchFeed has settled
AfterFetchEnabled == pc = "fetching" /\ pending = {}

\* one run of the process in which every awaited read, request or timer
\* eventually resolves or rejects, and the continuation of a resolved
\* Promise.all eventually runs (weak fairness of AfterFetch, with its
\* enabling condition written out)
SpecFair ==
    /\ Spec
    /\ WF_vars(AwaitedSteps)
    /\ ([]<>~AfterFetchEnabled \/ []<><<AfterFetch>>_vars)

\* the scheduler starts the process again after a run has ended
NextRuns ==
    \/ Next
    \/ NewRun

SpecRuns == Init /\ [][NextRuns]_vars

\* ------------------------------------------------------------------ claims about main

\* the positions <<feed, k>> of the items the feeds returned in this run
FetchedPositions ==
    {p \in (1..Len(fetchResults)) \X (1..MaxFeedItems) :
        fetchResults[p[1]].success /\ p[2] <= Len(fetchResults[p[1]].items)}

FetchedItem(p) == fetchResults[p[1]].items[p[2]]

\* the call hands over an item the feeds returned in this run, published
\* within the window and matching a topic
HandsRecentRelevant(c) ==
    \E p \in FetchedPositions :
        /\ FetchedItem(p).id = c.id
        /\ FetchedItem(p).link = c.link
        /\ IsRecentText(FetchedItem(p).pubDate, hours, NowMs)
        /\ calculateRelevanceScore(FetchedItem(p), topics) >= 1

\* the call hands over an item that was handed to the summarizer before
HandsSummarized(c) ==
    \E k \in 1..Len(llmCalls) :
        llmCalls[k].kind = "summary" /\ llmCalls[k].id = c.id /\ llmCalls[k].link = c.link

\* the calls a step adds to a log of calls
AddedCalls(before, after) == {after[k] : k \in (Len(before) + 1)..Len(after)}

PaperCalls == {k \in 1..Len(slack) : slack[k].kind = "paper"}

\* the paper messages of this run that reached the channel
PaperPosts == {k \in PaperCalls : slack[k].ok}

\* C5: every step that hands an item to the summarizer hands over an item
\* fetched in this run that was published strictly within the last
\* TIMEFRAME_HOURS hours and scores at least 1 against the topics, and every
\* step that hands an item to the publisher hands over an item that went
\* through the summarizer.
C5_OnlyRecentRelevantItems ==
    [][/\ \A c \in AddedCalls(llmCalls, llmCalls') :
              c.kind = "summary" => HandsRecentRelevant(c)
       /\ \A c \in AddedCalls(slack, slack') :
              c.kind \in {"paper", "summary"} => HandsSummarized(c)]_vars

\* C5 witness: a run with the 24 hour window fetched a relevant recent item, a
\* recent item without a match and a relevant item two days old, and ended
\* having posted the digest and the first item only.
C5_Witness ==
    /\ pc = "done" /\ hours = 24
    /\ \E a \in FetchedPositions, b \in FetchedPositions, c \in FetchedPositions :
          /\ FetchedItem(a).link = <<"u", "1">>
          /\ FetchedItem(b).link = <<"u", "2">>
          /\ FetchedItem(c).link = <<"u", "3">>
          /\ [k \in 1..Len(slack) |-> slack[k].id]
                 = <<<<0, 0>>, FetchedItem(a).id, FetchedItem(a).id>>

\* C6: no link is posted twice: not twice in one run, and not in a run after
\* one in which it was posted.
C6_LinkDeliveredOnce ==
    /\ \A j \in PaperPosts, k \in PaperPosts : j # k => slack[j].link # slack[k].link
    /\ \A k \in PaperPosts : slack[k].link \notin postedBefore

\* C7: a run posts at most the configured maximum number of items.
C7_AtMostMaxItemsPosted == Cardinality(PaperPosts) <= MaxItemsToPost(configFile)

\* C8: a failed summarization call neither ends the run nor drops an item: once
\* summarizeBatch is over, its result holds every curated item, in order, each
\* with the summary of its call or the fallback text.
C8_SummaryFailureKeepsItem ==
    llmCalls # <<>> /\ pc \notin {"summarizing", "pause"} =>
        /\ Len(itemsWithSummaries) = Len(curatedItems)
        /\ \A k \in 1..Len(curatedItems) :
              /\ DOMAIN itemsWithSummaries[k] = DOMAIN curatedItems[k] \cup {"summary"}
              /\ \A f \in DOMAIN curatedItems[k] : itemsWithSummaries[k][f] = curatedItems[k][f]
              /\ itemsWithSummaries[k].summary \in {<<"S">> \o curatedItems[k].link, SummaryFallback}
        /\ {llmCalls[k].id : k \in {j \in 1..Len(llmCalls) : llmCalls[j].kind = "summary"}}
               = {curatedItems[k].id : k \in 1..Len(curatedItems)}

\* C8 witness: the call for the first item failed, the call for a later item
\* succeeded, and the run ended with exit code 0.
C8_Witness ==
    /\ pc = "done" /\ exitCode = 0
    /\ Len(itemsWithSummaries) >= 2
    /\ itemsWithSummaries[1].summary = SummaryFallback
    /\ itemsWithSummaries[2].summary = <<"S">> \o itemsWithSummaries[2].link

\* C9: once the digest is posted, a run that has ended has attempted the post
\* of every curated item, whatever failed for the items before it.
C9_EveryItemAttempted ==
    pc \in {"done", "exited"} /\ digestTs # 0 =>
        \A k \in 1..Len(itemsWithSummaries) :
            \E j \in PaperCalls : slack[j].id = itemsWithSummaries[k].id

\* C10: when the post of the digest fails the process exits with code 1 and
\* the digest is the only message the run has sent.
C10_DigestFailureIsFatal ==
    (\E k \in 1..Len(slack) : slack[k].kind = "digest" /\ ~slack[k].ok) =>
        /\ pc = "exited"
        /\ exitCode = 1
        /\ Len(slack) = 1

\* C10 witness: a run with summarized items whose digest post failed.
C10_Witness ==
    /\ Len(itemsWithSummaries) >= 1
    /\ Len(slack) = 1 /\ slack[1].kind = "digest" /\ ~slack[1].ok
    /\ pc = "exited"

\* ------------------------------------------------------------------ fetchAllFeeds

\* a is before b in the order of the feed list, then of the feed
PositionBefore(a, b) == a[1] < b[1] \/ (a[1] = b[1] /\ a[2] < b[2])

\* items holds each item of the successful feeds once, feed after feed in the
\* order of the feed list
IsAggregateOfSuccessful(items) ==
    /\ Len(items) = Cardinality(FetchedPositions)
    /\ \A p \in FetchedPositions : \E j \in 1..Len(items) : items[j] = FetchedItem(p)
    /\ \A j \in 1..Len(items) : \E p \in FetchedPositions : items[j] = FetchedItem(p)
    /\ \A j \in 1..Len(items), k \in 1..Len(items) :
           j < k => PositionBefore(items[j].id, items[k].id)

\* C11: whichever feeds fail and in whatever order the fetches settle, the
\* step in which fetchAllFeeds returns does not end the run with an error and
\* returns exactly the items of the feeds that succeeded, in the order of the
\* feed list.
C11_FetchAllFeedsContract ==
    [][pc = "fetching" /\ pc' # "fetching" =>
           /\ pc' # "exited"
           /\ IsAggregateOfSuccessful(allItems')]_vars

\* C11 witness: the first feed failed, the second returned two items, and
\* fetchAllFeeds returned these two.
C11_Witness ==
    /\ pc \notin {"start", "loadFeeds", "loadTopics", "fetching"}
    /\ Len(fetchResults) = 2
    /\ ~fetchResults[1].success
    /\ fetchResults[2].success /\ Len(fetchResults[2].items) = 2
    /\ allItems = fetchResults[2].items

\* ------------------------------------------------------------------ configuration

\* a credential is missing, or feeds.txt or topics.txt holds no entry
ConfigurationError ==
    \/ ~env.ANTHROPIC_API_KEY
    \/ ~env.SLACK_BOT_TOKEN
    \/ ~env.SLACK_CHANNEL
    \/ feedsFile.exists /\ loadFeeds(feedsFile.lines) = <<>>
    \/ topicsFile.exists /\ loadTopics(topicsFile.lines) = <<>>

\* main is at or before the checks of feedUrls.length and topics.length
Loading == pc \in {"start", "loadFeeds", "loadTopics"}

\* no feed fetch, no summarization call and no Slack post has been issued
NoExternalCall == fetchCalls = <<>> /\ llmCalls = <<>> /\ slack = <<>>

\* C12: with a missing credential or an empty feed or topic list the run never
\* gets past the loading of its configuration, where no feed has been
\* fetched and no summarization call or Slack post issued: every step it
\* takes there leaves it there or exits the process with code 1 without
\* such a call, and an exited process takes no step.
C12_ConfigurationErrorAborts ==
    /\ [](Loading => NoExternalCall)
    /\ [][/\ (Loading /\ ConfigurationError) =>
                (Loading' \/ (pc' = "exited" /\ exitCode' = 1 /\ NoExternalCall'))
          /\ pc # "exited"]_vars

\* C12 witness: the credentials are set and feeds.txt lists a feed, but
\* topics.txt holds no topic; the process has exited.
C12_Witness ==
    /\ env.ANTHROPIC_API_KEY /\ env.SLACK_BOT_TOKEN /\ env.SLACK_CHANNEL
    /\ feedUrls # <<>>
    /\ topicsFile.exists /\ topics = <<>>
    /\ pc = "exited" /\ exitCode = 1

\* ------------------------------------------------------------------ nothing to report

\* none of the fetched items is both within the window and a match of a topic
NothingToReport ==
    \A p \in FetchedPositions :
        \/ ~IsRecentText(FetchedItem(p).pubDate, hours, NowMs)
        \/ calculateRelevanceScore(FetchedItem(p), topics) < DefaultMinScore

\* C13: when fetchAllFeeds returns and no fetched item survives the time
\* filter, or none of the survivors matches a topic, main returns in that
\* step: the process ends with exit code 0, and no summarization call and no
\* Slack post has been made.
C13_NothingToReportExitsZero ==
    [][pc = "fetching" /\ pc' # "fetching" /\ NothingToReport =>
           /\ pc' = "done"
           /\ exitCode' = 0
           /\ llmCalls' = <<>>
           /\ slack' = <<>>]_vars

\* C13 witness: a run whose feeds returned recent items, none of them a match
\* of a topic, has ended with exit code 0 and without a call.
C13_Witness ==
    /\ pc = "done" /\ exitCode = 0
    /\ recentItems # <<>> /\ curatedItems = <<>>
    /\ NothingToReport
    /\ llmCalls = <<>> /\ slack = <<>>

\* ------------------------------------------------------------------ postCompleteDigest

MaxBatchItems == 4

MaxConcurrentPool == {1, 2, 3}

\* n items with links of their own
BatchInput(n) ==
    [i \in 1..n |-> MakeItem(<<1, i>>, DEEP, Undefined, Undefined, <<"u", ToString(i)>>, Undefined)]

\* summarizeBatch(items, topics, maxConcurrent) is called and has started the
\* calls of its first batch
InitBatch ==
    /\ env = [ANTHROPIC_API_KEY |-> TRUE, SLACK_BOT_TOKEN |-> FALSE, SLACK_CHANNEL |-> FALSE]
    /\ configFile = [exists |-> FALSE, json |-> [timeframe_hours |-> 0, max_items_to_post |-> 0]]
    /\ feedsFile = NoFile
    /\ topicsFile = NoFile
    /\ run = 0
    /\ postedBefore = {}
    /\ ret = NotReturned
    /\ \E n \in 0..MaxBatchItems, m \in MaxConcurrentPool :
          /\ call = [fn |-> "summarizeBatch", items |-> BatchInput(n), maxConcurrent |-> m]
          /\ curatedItems = BatchInput(n)
          /\ inFlight = BatchPositions(BatchInput(n), 0, m)
          /\ llmCalls = BatchCalls(BatchInput(n), 0)
    /\ pc = "summarizing"
    /\ exitCode = -1
    /\ hours = 0
    /\ feedUrls = <<>>
    /\ topics = <<DEEP>>
    /\ pending = {}
    /\ fetchResults = <<>>
    /\ fetchCalls = <<>>
    /\ allItems = <<>>
    /\ recentItems = <<>>
    /\ batchStart = 0
    /\ summaries = <<>>
    /\ itemsWithSummaries = <<>>
    /\ digest = <<>>
    /\ digestTs = 0
    /\ paperIndex = 0
    /\ paperTs = 0
    /\ slack = <<>>

NextBatch ==
    \/ SummarySettle
    \/ BatchDone
    \/ PauseOver

SpecBatch == InitBatch /\ [][NextBatch]_vars

\* the summarization calls made so far are one for each of the first items of
\* the input, in the order of the input
OneCallPerItemSoFar ==
    /\ Len(llmCalls) <= Len(call.items)
    /\ \A k \in 1..Len(llmCalls) :
          /\ llmCalls[k].kind = "summary"
          /\ llmCalls[k].id = call.items[k].id
          /\ llmCalls[k].link = call.items[k].link

\* the result pairs each item of the input, in order, with the summary of its
\* own call or the fallback text, and each item had one call
IsBatchResult(result) ==
    /\ Len(result) = Len(call.items)
    /\ Len(llmCalls) = Len(call.items)
    /\ \A k \in 1..Len(result) :
          /\ \A f \in DOMAIN call.items[k] : result[k][f] = call.items[k][f]
          /\ DOMAIN result[k] = DOMAIN call.items[k] \cup {"summary"}
          /\ result[k].summary \in {<<"S">> \o call.items[k].link, SummaryFallback}

\* C15: summarizeBatch never has more than maxConcurrent calls in flight; a
\* step that starts calls finds no call in flight and the pause on, and
\* starts at most maxConcurrent of them; the calls are one per item in the
\* order of the input; and whatever the order in which the calls settled, the
\* result returned has the length and the order of the input, each item with
\* its own summary.
C15_BoundedBatches ==
    /\ [](/\ Cardinality(inFlight) <= call.maxConcurrent
          /\ OneCallPerItemSoFar
          /\ ret.done => IsBatchResult(ret.value))
    /\ [][Len(llmCalls') > Len(llmCalls) =>
              /\ inFlight = {}
              /\ pc = "pause"
              /\ Len(llmCalls') - Len(llmCalls) <= call.maxConcurrent]_vars

\* C15 witness: four items summarized two at a time; the call of the first
\* item failed, and the result has been returned with the fallback for the
\* first item and its own reply for each of the others.
C15_Witness ==
    /\ call.fn = "summarizeBatch" /\ call.maxConcurrent = 2 /\ Len(call.items) = 4
    /\ ret.done
    /\ ret.value[1].summary = SummaryFallback
    /\ \A k \in 2..4 : ret.value[k].summary = <<"S">> \o call.items[k].link

\* ------------------------------------------------------------------ termination

\* main has returned, or process.exit(1) has been called
RunEnded == (pc = "done" /\ exitCode = 0) \/ (pc = "exited" /\ exitCode = 1)

\* a step that starts an iteration of the batch loop or of the post loop
\* moves its i forward, to a position inside the list
LoopsAdvance ==
    /\ (pc = "pause" /\ pc' # "pause") =>
           (batchStart < batchStart' /\ batchStart' < Len(curatedItems))
    /\ (pc = "postSummary" /\ pc' = "postPaper") =>
           (paperIndex' = paperIndex + 1 /\ paperIndex' < Len(itemsWithSummaries))

\* C16: when every awaited call eventually resolves or rejects, a run of main
\* eventually ends, either returned with exit code 0 or exited with code 1;
\* every iteration of the batch loop moves i forward to a position inside
\* the items, and every iteration of the post loop moves i forward by one to
\* a position inside the papers.
C16_RunTerminates == <>RunEnded /\ [][LoopsAdvance]_vars

\* C16 witness: a run that summarized four items in two batches and posted
\* all four has returned.
C16_Witness ==
    /\ pc = "done" /\ exitCode = 0
    /\ batchStart = MaxConcurrent
    /\ Len(curatedItems) = 4
    /\ paperIndex = 4

====
